---- MODULE Spec2Model ----
(***************************************************************************)
(* The inference-serving actor of trast (trast/src/main.rs): the RPC       *)
(* handler `ner`, the actor loop spawned by `act`, `spawn_ner_task`,       *)
(* `get_pipeline`, `wait`, and the tokio tasks / rayon jobs that run       *)
(* `Pipeline::predict` and answer on the per-request oneshot channel.      *)
(*                                                                         *)
(* Requests, their oneshot channels and their jobs are numbered 1..MaxReq  *)
(* in the order `ner` sends them on the mpsc channel.  Time is discrete:   *)
(* one Tick is PIPELINE_TTL / TicksPerTTL.                                 *)
(***************************************************************************)
EXTENDS Integers, Sequences, FiniteSets, TLC

\* ------------------------------------------------------------------ bounds
MaxReq == 2
TicksPerTTL == 2
NumThreads == 2

\* --------------------------------------------------------------- constants
PIPELINE_TTL == TicksPerTTL
ChannelCapacity == 16

Requests == 1..MaxReq

\* Callers beyond a full channel in the burst looked at by QueueSpec.
BurstExtra == 2

\* Every request number used by some specification.
Ids == 1..(ChannelCapacity + BurstExtra)
NoMsg == [sentence |-> 0, tx |-> 0]

VARIABLES
    nextId,        \* number of calls of `ner` that have sent their Message
    queue,         \* the mpsc channel `rx`: Messages not yet received
    rxDropped,     \* oneshot receivers dropped by their caller before a value came
    chan,          \* chan[c]: the cb.send calls made on oneshot channel c, in order
    pipeline,      \* the actor's `pipeline: Option<Arc<Pipeline>>`
    pc,            \* where the actor task is suspended: "select" or "get_pipeline"
    msg,           \* the Message whose spawn_ner_task is awaiting get_pipeline
    constructing,  \* channels whose spawn_ner_task has a get_pipeline call in flight
    cold,          \* cold[r]: the "cold" field recorded on the span of request r
    handles,       \* the actor's `handles: FuturesUnordered<JoinHandle<()>>`
    task,          \* task[j]: state of the tokio task spawned for sentence j
    cb,            \* cb[j]: the oneshot sender moved into task j
    poolQueue,     \* the rayon pool's FIFO queue of predict closures
    waitPhase,     \* the `wait` future of this select: "drain" or "sleep"
    elapsed,       \* ticks since sleep(PIPELINE_TTL) was created (saturating)
    sinceHandled,  \* ticks since the actor last finished handling a Message (saturating)
    sinceJobEnd,   \* ticks since a task last ended (saturating)
    leader,        \* leader[r], r in Requests: the request whose cold start found r queued behind it
    sending,       \* callers of `ner` suspended in actor_tx.send: the channel was full
    tokens,        \* predict: the encoding, one [scores, start, end] per logits row
    rowIdx,        \* predict: the rows of `logits` scanned so far
    entities,      \* predict: `entities: Vec<RawEntity>`
    output,        \* predict: the Vec<Entity> returned
    predictPc,     \* predict: "idle", "encode", "scan" (in the row loop) or "done"
    returned       \* predict: what the earlier calls with this sentence returned

vars == <<nextId, queue, rxDropped, chan, pipeline, pc, msg, constructing, cold,
          handles, task, cb, poolQueue, waitPhase, elapsed, sinceHandled,
          sinceJobEnd, leader, sending, tokens, rowIdx, entities, output, predictPc,
          returned>>

clientVars == <<nextId, queue, rxDropped>>
actorVars == <<pipeline, pc, msg, constructing, cold, handles, waitPhase, elapsed,
               sinceHandled, leader>>
taskVars == <<task, cb, poolQueue>>
extractVars == <<tokens, rowIdx, entities, output, predictPc, returned>>
actVars == <<nextId, queue, rxDropped, chan, pipeline, pc, msg, constructing, cold,
             handles, task, cb, poolQueue, waitPhase, elapsed, sinceHandled,
             sinceJobEnd, leader, sending>>

Min(a, b) == IF a < b THEN a ELSE b

\* ---------------------------------------------------------------- helpers

\* Result<Vec<Entity>, Error> as seen on a oneshot channel: Ok, or one of the
\* two variants of `enum Error`.
Values == {"Ok", "Join", "Bert"}

\* A tokio task has ended (returned or panicked): its JoinHandle is ready.
Finished(j) == task[j] \in {"done", "panicked"}

\* The sender of a value is the number of the task that sent it, or this for
\* a value sent by spawn_ner_task itself (the construction error).
InSpawnNerTask == 0

\* cb.send(v) by `by` on channel c; the Result of send is ignored (`let _ =`),
\* a send to a dropped receiver delivers nothing.
Send(c, v, by) ==
    chan' = [chan EXCEPT ![c] = Append(@, [val |-> v, by |-> by,
                                           delivered |-> c \notin rxDropped])]

\* The `wait` future pinned outside the loop: its sleep survives a Message.
LoopAgain_KeepTimer ==
    /\ pc' = "select"
    /\ msg' = NoMsg
    /\ UNCHANGED <<waitPhase, elapsed>>

\* The select! loop is entered again: a new `wait` future (and so a new sleep)
\* is created; the old one was dropped.
LoopAgain ==
    /\ pc' = "select"
    /\ msg' = NoMsg
    /\ waitPhase' = "drain"
    /\ elapsed' = 0

\* tokio::spawn of the task that runs predict for message m, and handles.push.
SpawnTask(m) ==
    /\ task' = [task EXCEPT ![m.sentence] = "spawned"]
    /\ cb' = [cb EXCEPT ![m.sentence] = m.tx]
    /\ handles' = handles \cup {m.sentence}

\* The state of `act` right after its tokio::spawn: empty channel, no pipeline,
\* no handles.
ActInit ==
    /\ nextId = 0
    /\ queue = <<>>
    /\ rxDropped = {}
    /\ chan = [c \in Ids |-> <<>>]
    /\ pipeline = "None"
    /\ pc = "select"
    /\ msg = NoMsg
    /\ constructing = {}
    /\ cold = [r \in Ids |-> "unset"]
    /\ handles = {}
    /\ task = [j \in Ids |-> "none"]
    /\ cb = [j \in Ids |-> 0]
    /\ poolQueue = <<>>
    /\ waitPhase = "drain"
    /\ elapsed = 0
    /\ sinceHandled = PIPELINE_TTL
    /\ sinceJobEnd = PIPELINE_TTL
    /\ leader = [r \in Ids |-> 0]
    /\ sending = {}

\* No call of predict is being looked at.
PredictIdle ==
    /\ tokens = <<>>
    /\ rowIdx = 0
    /\ entities = <<>>
    /\ output = <<>>
    /\ predictPc = "idle"
    /\ returned = <<>>

Init == ActInit /\ PredictIdle

\* ------------------------------------------------------------ the callers

\* A channel that never refuses a Message.
HasRoom_Unbounded == TRUE

\* mpsc::channel::<Message>(16): send completes at once while fewer than 16
\* Messages are buffered.
HasRoom == Len(queue) < ChannelCapacity

\* TrastService::ner: create the oneshot channel and send the Message.
NerSend ==
    /\ nextId < MaxReq
    /\ HasRoom
    /\ nextId' = nextId + 1
    /\ queue' = Append(queue, [sentence |-> nextId + 1, tx |-> nextId + 1])
    /\ UNCHANGED <<rxDropped, chan>>
    /\ UNCHANGED actorVars
    /\ UNCHANGED taskVars
    /\ UNCHANGED sinceJobEnd
    /\ UNCHANGED <<sending, extractVars>>

\* A caller going away that also aborts the task working for it.
NerAbandon_Abort(c) ==
    /\ c <= nextId
    /\ c \notin rxDropped
    /\ chan[c] = <<>>
    /\ rxDropped' = rxDropped \cup {c}
    /\ task' = [task EXCEPT ![c] = IF @ \in {"spawned", "running"} THEN "panicked" ELSE @]
    /\ UNCHANGED <<nextId, queue, chan, cb, poolQueue>>
    /\ UNCHANGED actorVars
    /\ UNCHANGED sinceJobEnd
    /\ UNCHANGED <<sending, extractVars>>

\* The caller of `ner` goes away while awaiting rx: the receiver is dropped.
NerAbandon(c) ==
    /\ c <= nextId
    /\ c \notin rxDropped
    /\ chan[c] = <<>>
    /\ rxDropped' = rxDropped \cup {c}
    /\ UNCHANGED <<nextId, queue, chan>>
    /\ UNCHANGED actorVars
    /\ UNCHANGED taskVars
    /\ UNCHANGED sinceJobEnd
    /\ UNCHANGED <<sending, extractVars>>

\* ner in a burst of ChannelCapacity + BurstExtra callers: the channel has room,
\* send completes and the Message is buffered.
NerBurst ==
    /\ nextId < ChannelCapacity + BurstExtra
    /\ HasRoom
    /\ nextId' = nextId + 1
    /\ queue' = Append(queue, [sentence |-> nextId + 1, tx |-> nextId + 1])
    /\ UNCHANGED <<rxDropped, chan, sending, sinceJobEnd>>
    /\ UNCHANGED actorVars
    /\ UNCHANGED taskVars
    /\ UNCHANGED extractVars

\* ner in the burst with the channel full: actor_tx.send(..).await is pending,
\* the caller is suspended holding its Message.
NerSuspend ==
    /\ nextId < ChannelCapacity + BurstExtra
    /\ ~HasRoom
    /\ nextId' = nextId + 1
    /\ sending' = sending \cup {nextId + 1}
    /\ UNCHANGED <<queue, rxDropped, chan, sinceJobEnd>>
    /\ UNCHANGED actorVars
    /\ UNCHANGED taskVars
    /\ UNCHANGED extractVars

\* A suspended send completes once the channel has room again.
NerResume(c) ==
    /\ c \in sending
    /\ HasRoom
    /\ queue' = Append(queue, [sentence |-> c, tx |-> c])
    /\ sending' = sending \ {c}
    /\ UNCHANGED <<nextId, rxDropped, chan, sinceJobEnd>>
    /\ UNCHANGED actorVars
    /\ UNCHANGED taskVars
    /\ UNCHANGED extractVars

\* -------------------------------------------------------------- the actor

\* The recv arm awaiting each JoinHandle before it takes the next Message.
ActorAtSelect_AwaitsJobs == pc = "select" /\ \A j \in handles : Finished(j)

\* spawn_ner_task detached from the loop: the next Message is taken at any time.
ActorAtSelect_Detached == TRUE

\* The actor task can take the next Message only when it is suspended in
\* select!: the recv arm awaits spawn_ner_task (and so get_pipeline) inline.
ActorAtSelect == pc = "select"

\* The flag recorded as pipeline.is_some().
ColdFlag_Inverted == IF pipeline = "Some" THEN "true" ELSE "false"

\* span.record("cold", pipeline.is_none()), first statement of spawn_ner_task.
ColdFlag == IF pipeline = "None" THEN "true" ELSE "false"

\* select! arm `Some(Message {..}) = rx.recv()`, then spawn_ner_task up to its
\* first suspension: either the await of get_pipeline (pipeline is None) or,
\* with a pipeline, straight through tokio::spawn and handles.push.
SelectRecv ==
    /\ ActorAtSelect
    /\ queue # <<>>
    /\ LET m == Head(queue) IN
        /\ queue' = Tail(queue)
        /\ cold' = [cold EXCEPT ![m.sentence] = ColdFlag]
        /\ IF pipeline = "None"
           THEN /\ pc' = "get_pipeline"
                /\ msg' = m
                /\ constructing' = constructing \cup {m.tx}
                /\ waitPhase' = "drain"
                /\ elapsed' = 0
                /\ leader' = [r \in Ids |->
                                IF r \in Requests /\ leader[r] = 0 /\ \E i \in 1..Len(queue) : queue[i].sentence = r
                                THEN m.sentence ELSE leader[r]]
                /\ UNCHANGED <<handles, task, cb, sinceHandled>>
           ELSE /\ SpawnTask(m)
                /\ LoopAgain
                /\ sinceHandled' = 0
                /\ UNCHANGED <<constructing, leader>>
    /\ UNCHANGED <<nextId, rxDropped, chan, pipeline, poolQueue, sinceJobEnd>>
    /\ UNCHANGED <<sending, extractVars>>

\* The constructed pipeline is used for this task but not stored.
GetPipelineOk_NotStored ==
    /\ pc = "get_pipeline"
    /\ constructing' = constructing \ {msg.tx}
    /\ SpawnTask(msg)
    /\ LoopAgain
    /\ sinceHandled' = 0
    /\ UNCHANGED <<nextId, queue, rxDropped, chan, cold, poolQueue, sinceJobEnd, leader,
                   pipeline>>
    /\ UNCHANGED <<sending, extractVars>>

\* get_pipeline returned Ok(p): *pipeline = Some(Arc::new(p)), then the task
\* is spawned and pushed, and the loop goes round.
GetPipelineOk ==
    /\ pc = "get_pipeline"
    /\ pipeline' = "Some"
    /\ constructing' = constructing \ {msg.tx}
    /\ SpawnTask(msg)
    /\ LoopAgain
    /\ sinceHandled' = 0
    /\ UNCHANGED <<nextId, queue, rxDropped, chan, cold, poolQueue, sinceJobEnd, leader>>
    /\ UNCHANGED <<sending, extractVars>>

\* The construction error answered to every Message waiting in the channel too.
GetPipelineErr_Broadcast(e) ==
    /\ pc = "get_pipeline"
    /\ chan' = [c \in Ids |->
                  IF c = msg.tx \/ \E i \in 1..Len(queue) : queue[i].tx = c
                  THEN Append(chan[c], [val |-> e, by |-> InSpawnNerTask,
                                        delivered |-> c \notin rxDropped])
                  ELSE chan[c]]
    /\ queue' = <<>>
    /\ constructing' = constructing \ {msg.tx}
    /\ LoopAgain
    /\ sinceHandled' = 0
    /\ UNCHANGED <<nextId, rxDropped, pipeline, cold, handles, sinceJobEnd, leader>>
    /\ UNCHANGED taskVars
    /\ UNCHANGED <<sending, extractVars>>

\* get_pipeline returned Err(e): cb.send(Err(e)); return None.  e is
\* Error::Join (spawn_blocking panicked) or Error::Bert (from_pretrained failed).
GetPipelineErr(e) ==
    /\ pc = "get_pipeline"
    /\ Send(msg.tx, e, InSpawnNerTask)
    /\ constructing' = constructing \ {msg.tx}
    /\ LoopAgain
    /\ sinceHandled' = 0
    /\ UNCHANGED <<nextId, queue, rxDropped, pipeline, cold, handles, sinceJobEnd, leader>>
    /\ UNCHANGED taskVars
    /\ UNCHANGED <<sending, extractVars>>

\* `wait` without the drain loop: only the sleep.
Drained_NoLoop == TRUE

\* `while handles.next().await.is_some() {}` leaves the loop when the set is empty.
Drained == handles = {}

\* A FuturesUnordered that yields any JoinHandle, finished or not.
Yielded_Any(j) == TRUE

\* handles.next() yields a JoinHandle only once its task has ended.
Yielded(j) == Finished(j)

\* wait: handles.next() yields the JoinHandle of a task that has ended.
WaitNext(j) ==
    /\ pc = "select"
    /\ waitPhase = "drain"
    /\ j \in handles
    /\ Yielded(j)
    /\ handles' = handles \ {j}
    /\ UNCHANGED <<pipeline, pc, msg, constructing, cold, waitPhase, elapsed,
                   sinceHandled, leader, chan, sinceJobEnd>>
    /\ UNCHANGED clientVars
    /\ UNCHANGED taskVars
    /\ UNCHANGED <<sending, extractVars>>

\* wait: handles.next() returned None; sleep(PIPELINE_TTL) is created.
WaitSleep ==
    /\ pc = "select"
    /\ waitPhase = "drain"
    /\ Drained
    /\ waitPhase' = "sleep"
    /\ elapsed' = 0
    /\ UNCHANGED <<pipeline, pc, msg, constructing, cold, handles,
                   sinceHandled, leader, chan, sinceJobEnd>>
    /\ UNCHANGED clientVars
    /\ UNCHANGED taskVars
    /\ UNCHANGED <<sending, extractVars>>

\* The wait arm without pipeline.take().
Evict_NoTake ==
    /\ pc = "select"
    /\ waitPhase = "sleep"
    /\ elapsed >= PIPELINE_TTL
    /\ LoopAgain
    /\ UNCHANGED <<pipeline, constructing, cold, handles, sinceHandled, leader, chan,
                   sinceJobEnd>>
    /\ UNCHANGED clientVars
    /\ UNCHANGED taskVars
    /\ UNCHANGED <<sending, extractVars>>

\* select! arm `_ = wait(&mut handles)`: the sleep is over, pipeline.take().
Evict ==
    /\ pc = "select"
    /\ waitPhase = "sleep"
    /\ elapsed >= PIPELINE_TTL
    /\ pipeline' = "None"
    /\ LoopAgain
    /\ UNCHANGED <<constructing, cold, handles, sinceHandled, leader, chan, sinceJobEnd>>
    /\ UNCHANGED clientVars
    /\ UNCHANGED taskVars
    /\ UNCHANGED <<sending, extractVars>>

\* -------------------------------------------------- tokio tasks and the pool

\* First poll of the spawned task: threadpool.spawn_fifo_async(predict).
TaskSpawnFifo(j) ==
    /\ task[j] = "spawned"
    /\ task' = [task EXCEPT ![j] = "queued"]
    /\ poolQueue' = Append(poolQueue, j)
    /\ UNCHANGED <<cb, chan, sinceJobEnd>>
    /\ UNCHANGED clientVars
    /\ UNCHANGED actorVars
    /\ UNCHANGED <<sending, extractVars>>

Running == {j \in Requests : task[j] = "running"}

\* A free pool thread takes the oldest queued closure.
PoolStart ==
    /\ poolQueue # <<>>
    /\ Cardinality(Running) < NumThreads
    /\ task' = [task EXCEPT ![Head(poolQueue)] = "running"]
    /\ poolQueue' = Tail(poolQueue)
    /\ UNCHANGED <<cb, chan, sinceJobEnd>>
    /\ UNCHANGED clientVars
    /\ UNCHANGED actorVars
    /\ UNCHANGED <<sending, extractVars>>

\* predict returned Ok(entities): cb.send(Ok(entities)); the task ends.
PredictOk(j) ==
    /\ task[j] = "running"
    /\ Send(cb[j], "Ok", j)
    /\ task' = [task EXCEPT ![j] = "done"]
    /\ sinceJobEnd' = 0
    /\ UNCHANGED <<cb, poolQueue>>
    /\ UNCHANGED clientVars
    /\ UNCHANGED actorVars
    /\ UNCHANGED <<sending, extractVars>>

\* A job error that also resets the shared pipeline.
PredictErr_Poison(j) ==
    /\ task[j] = "running"
    /\ Send(cb[j], "Bert", j)
    /\ task' = [task EXCEPT ![j] = "done"]
    /\ sinceJobEnd' = 0
    /\ pipeline' = "None"
    /\ UNCHANGED <<cb, poolQueue>>
    /\ UNCHANGED clientVars
    /\ UNCHANGED <<pc, msg, constructing, cold, handles, waitPhase, elapsed,
                   sinceHandled, leader>>
    /\ UNCHANGED <<sending, extractVars>>

\* predict returned Err(e): cb.send(Err(e.into())), i.e. Error::Bert; the task ends.
PredictErr(j) ==
    /\ task[j] = "running"
    /\ Send(cb[j], "Bert", j)
    /\ task' = [task EXCEPT ![j] = "done"]
    /\ sinceJobEnd' = 0
    /\ UNCHANGED <<cb, poolQueue>>
    /\ UNCHANGED clientVars
    /\ UNCHANGED actorVars
    /\ UNCHANGED <<sending, extractVars>>

\* predict panicked: spawn_fifo_async resumes the unwind in the awaiting task,
\* the match is never reached, cb is dropped unsent and the JoinHandle yields
\* Err(JoinError), which `wait` discards.
PredictPanic(j) ==
    /\ task[j] = "running"
    /\ task' = [task EXCEPT ![j] = "panicked"]
    /\ sinceJobEnd' = 0
    /\ UNCHANGED <<cb, poolQueue, chan>>
    /\ UNCHANGED clientVars
    /\ UNCHANGED actorVars
    /\ UNCHANGED <<sending, extractVars>>

\* ---------------------------------------------------------------------- time

\* The actor task has been woken and has something to do at once: a Message is
\* ready, a JoinHandle is ready, the drain is over, or the sleep has expired.
ActorReady ==
    /\ pc = "select"
    /\ \/ queue # <<>>
       \/ waitPhase = "drain" /\ (handles = {} \/ \E j \in handles : Finished(j))
       \/ waitPhase = "sleep" /\ elapsed >= PIPELINE_TTL

\* Time passes by one tick.  The runtime polls a woken actor before the next
\* tick; get_pipeline and predict may take any number of ticks.
Tick ==
    /\ ~ActorReady
    /\ elapsed' = IF waitPhase = "sleep" THEN Min(elapsed + 1, PIPELINE_TTL) ELSE elapsed
    /\ sinceHandled' = Min(sinceHandled + 1, PIPELINE_TTL)
    /\ sinceJobEnd' = Min(sinceJobEnd + 1, PIPELINE_TTL)
    /\ UNCHANGED <<pipeline, pc, msg, constructing, cold, handles, waitPhase, leader, chan>>
    /\ UNCHANGED clientVars
    /\ UNCHANGED taskVars
    /\ UNCHANGED <<sending, extractVars>>

Next ==
    \/ NerSend
    \/ \E c \in Requests : NerAbandon(c)
    \/ SelectRecv
    \/ GetPipelineOk
    \/ \E e \in {"Join", "Bert"} : GetPipelineErr(e)
    \/ \E j \in Requests : WaitNext(j)
    \/ WaitSleep
    \/ Evict
    \/ \E j \in Requests : TaskSpawnFifo(j)
    \/ PoolStart
    \/ \E j \in Requests : PredictOk(j)
    \/ \E j \in Requests : PredictErr(j)
    \/ \E j \in Requests : PredictPanic(j)
    \/ Tick

Spec == Init /\ [][Next]_vars

TypeOK ==
    /\ nextId \in 0..MaxReq
    /\ pipeline \in {"None", "Some"}
    /\ pc \in {"select", "get_pipeline"}
    /\ waitPhase \in {"drain", "sleep"}
    /\ elapsed \in 0..PIPELINE_TTL
    /\ handles \subseteq Requests
    /\ \A j \in Requests : task[j] \in {"none", "spawned", "queued", "running", "done", "panicked"}


\* The actor and the runtime are fair to every enabled step and time goes on;
\* callers are free to stop sending.
Fairness ==
    /\ WF_vars(SelectRecv)
    /\ WF_vars(GetPipelineOk \/ \E e \in {"Join", "Bert"} : GetPipelineErr(e))
    /\ WF_vars(\E j \in Requests : WaitNext(j))
    /\ WF_vars(WaitSleep)
    /\ WF_vars(Evict)
    /\ WF_vars(\E j \in Requests : TaskSpawnFifo(j))
    /\ WF_vars(PoolStart)
    /\ WF_vars(\E j \in Requests : PredictOk(j) \/ PredictErr(j) \/ PredictPanic(j))
    /\ WF_vars(Tick)

FairSpec == Init /\ [][Next]_vars /\ Fairness

\* The inbound channel under a burst of callers against the actor.  The tasks
\* spawned during the burst have not been polled yet, and a failing
\* construction fails in from_pretrained.
BurstNext ==
    \/ NerBurst
    \/ NerSuspend
    \/ \E c \in Ids : NerResume(c)
    \/ SelectRecv
    \/ GetPipelineOk
    \/ GetPipelineErr("Bert")
    \/ WaitSleep
    \/ Evict
    \/ Tick

QueueSpec == Init /\ [][BurstNext]_vars

\* ================================================================== claims

Last(q) == q[Len(q)]

\* The construction made for request r failed: spawn_ner_task answered on r's channel.
LoadFailed(r) == \E i \in 1..Len(chan[r]) : chan[r][i].by = InSpawnNerTask

\* A task was spawned for request r.
Dispatched(r) == task[r] # "none"

\* The step takes a Message from the mpsc channel.
Dequeues == Len(queue') < Len(queue)

\* C1: the eviction step (pipeline.take() turning Some into None) is taken only
\* in a state where handles is empty and every task spawned so far has ended.
C1_EvictOnlyWhenDrained ==
    [][(pipeline = "Some" /\ pipeline' = "None")
          => /\ handles = {}
             /\ \A j \in Requests : task[j] \in {"none", "done", "panicked"}]_vars

\* An eviction has happened after a task ran: the pipeline that the task used is gone.
C1_Witness == pipeline = "None" /\ \E j \in Requests : Finished(j) /\ j \notin handles

\* C2: at most one get_pipeline call is in flight in any state, and while one is
\* in flight no Message is taken from the channel: a request that arrives
\* meanwhile stays queued until the construction has returned.
C2_SingleFlight ==
    /\ [](Cardinality(constructing) <= 1)
    /\ [][constructing # {} => ~Dequeues]_vars

\* A request is queued while a construction is in flight.
C2_Witness == constructing # {} /\ queue # <<>> /\ pc = "get_pipeline"

\* C3 (as stated): for requests queued together while the pipeline was absent,
\* only the first starts a construction and all of them get its outcome: none
\* of the others is dispatched when it failed, none fails when it succeeded.
C3_OneAttemptSameOutcome ==
    \A r \in Requests :
        leader[r] \notin {0, r} =>
            /\ cold[r] # "true"
            /\ LoadFailed(leader[r]) => ~Dispatched(r)
            /\ Dispatched(leader[r]) => ~LoadFailed(r)

\* C3 (amended): among requests queued together while the pipeline was absent, a
\* later one starts a construction exactly when every construction made for the
\* earlier ones failed; one handled warm is dispatched and gets no construction error.
C3_OneAttemptPerFailure ==
    \A r \in Requests :
        (leader[r] \notin {0, r} /\ cold[r] # "unset") =>
            /\ cold[r] = "true" <=> \A q \in leader[r]..(r - 1) : LoadFailed(q)
            /\ cold[r] = "false" => Dispatched(r) /\ ~LoadFailed(r)
            /\ (\E q \in leader[r]..(r - 1) : Dispatched(q)) => ~LoadFailed(r)

\* Two requests were queued together with the pipeline absent, the first was
\* constructed for and the second dispatched on the same pipeline.
C3_Witness ==
    \E r \in Requests :
        /\ leader[r] \notin {0, r}
        /\ Dispatched(leader[r])
        /\ Dispatched(r)
        /\ cold[r] = "false"

\* C4: a step that answers a construction error answers it on the channel of
\* the Message being handled and on no other, adds no handle and no task,
\* leaves the queue alone and leaves the pipeline None; and every Message taken
\* while the pipeline is None starts a get_pipeline call of its own.
C4_ConstructionFailureIsLocal ==
    [][/\ (\E c \in Requests : /\ Len(chan'[c]) > Len(chan[c])
                              /\ Last(chan'[c]).by = InSpawnNerTask)
            => /\ msg.tx \in Requests
               /\ Len(chan'[msg.tx]) = Len(chan[msg.tx]) + 1
               /\ Last(chan'[msg.tx]).val \in {"Join", "Bert"}
               /\ \A c \in Requests \ {msg.tx} : chan'[c] = chan[c]
               /\ handles' = handles
               /\ task' = task
               /\ queue' = queue
               /\ pipeline = "None"
               /\ pipeline' = "None"
               /\ constructing' = {}
       /\ (Dequeues /\ pipeline = "None")
            => /\ constructing' = {Head(queue).tx}
               /\ pc' = "get_pipeline"]_vars

\* After a failed construction the next request has started a new one.
C4_Witness ==
    \E c \in Requests :
        /\ LoadFailed(c)
        /\ constructing # {}
        /\ c \notin constructing
        /\ pipeline = "None"

\* The step ends task j with an error: predict returned Err or panicked.
JobFails(j) ==
    /\ task[j] = "running"
    /\ \/ task'[j] = "panicked"
       \/ /\ task'[j] = "done"
          /\ Len(chan'[cb[j]]) > Len(chan[cb[j]])
          /\ Last(chan'[cb[j]]).val # "Ok"

\* C5: every task that has ended has made exactly one send, on the channel of
\* the request it was spawned for; no channel carries a second value or a
\* value of another request's task; and a handle leaves `handles` only after
\* its task has sent.
C5_OutcomeSentExactlyOnce ==
    /\ \A j \in Requests :
          Finished(j) => /\ cb[j] = j
                         /\ Len(chan[j]) = 1
                         /\ chan[j][1].by = j
    /\ \A c \in Requests :
          /\ Len(chan[c]) <= 1
          /\ \A i \in 1..Len(chan[c]) : chan[c][i].by \in {c, InSpawnNerTask}
    /\ \A j \in Requests :
          (Dispatched(j) /\ j \notin handles) => Len(chan[j]) = 1

\* C6: a task whose predict closure panicked has sent Err(Error::Join) on the
\* channel of its request, and on no other channel.
C6_PanicSurfacesAsTaskError ==
    \A j \in Requests :
        task[j] = "panicked" =>
            /\ Len(chan[cb[j]]) = 1
            /\ chan[cb[j]][1].val = "Join"
            /\ chan[cb[j]][1].by = j
            /\ \A c \in Requests \ {cb[j]} :
                  \A i \in 1..Len(chan[c]) : chan[c][i].by # j

\* C7: a step in which a task ends with an error (predict returned Err, or
\* panicked) leaves the pipeline, the actor and the handles as they are, starts
\* no construction, and leaves every other task, its sender and its channel
\* unchanged; and every value a task has sent is on its own request's channel.
C7_JobErrorFrame ==
    /\ [][\A j \in Requests :
            JobFails(j) =>
                /\ pipeline' = pipeline
                /\ pipeline = "Some"
                /\ pc' = pc
                /\ constructing' = constructing
                /\ handles' = handles
                /\ poolQueue' = poolQueue
                /\ \A k \in Requests \ {j} :
                      /\ task'[k] = task[k]
                      /\ cb'[k] = cb[k]
                      /\ chan'[k] = chan[k]]_vars
    /\ [](\A c \in Requests : \A i \in 1..Len(chan[c]) :
            chan[c][i].by # InSpawnNerTask => chan[c][i].by = c)

\* One task has ended with an error while another is still in flight on the
\* same, still present, pipeline.
C7_Witness ==
    /\ pipeline = "Some"
    /\ \E j, k \in Requests :
          /\ j # k
          /\ \/ task[j] = "panicked"
             \/ task[j] = "done" /\ Len(chan[j]) = 1 /\ chan[j][1].val = "Bert"
          /\ task[k] \in {"spawned", "queued", "running"}
          /\ k \in handles

Dequeued == nextId - Len(queue)

\* C8: whenever the pipeline is present, handles is empty and the actor is in
\* select, either another Message is taken or the pipeline becomes None; and a
\* Message taken while the pipeline is None is not dispatched in that step: its
\* task is spawned only by the step in which its get_pipeline call returns Ok
\* and stores the new pipeline.
C8_IdleEvictionHappens ==
    /\ \A n \in 0..MaxReq :
          (pipeline = "Some" /\ handles = {} /\ pc = "select" /\ Dequeued = n)
              ~> (pipeline = "None" \/ Dequeued > n)
    /\ [][/\ (Dequeues /\ pipeline = "None")
               => (pc' = "get_pipeline" /\ task' = task /\ handles' = handles)
          /\ \A j \in Requests :
               (cold[j] = "true" /\ task[j] = "none" /\ task'[j] # "none")
                   => (pc = "get_pipeline" /\ msg.sentence = j /\ pipeline' = "Some")]_vars

\* Two requests were both handled cold and both dispatched: the pipeline built
\* for the first was evicted and the second went through a construction again.
C8_Witness ==
    \E j, k \in Requests :
        /\ j < k
        /\ cold[j] = "true" /\ Dispatched(j)
        /\ cold[k] = "true" /\ Dispatched(k)
        /\ ~LoadFailed(k)
        /\ pipeline = "Some"

\* C9: the sleep is created only with handles empty; taking a Message discards
\* it (a new wait starts at zero); and the eviction step is taken only when at
\* least PIPELINE_TTL has passed since the actor last finished handling a
\* Message and since a task last ended.
C9_EvictionNotBeforeTTL ==
    [][/\ (waitPhase = "drain" /\ waitPhase' = "sleep") => handles = {}
       /\ Dequeues => (waitPhase' = "drain" /\ elapsed' = 0)
       /\ (pipeline = "Some" /\ pipeline' = "None")
            => /\ elapsed >= PIPELINE_TTL
               /\ sinceHandled >= PIPELINE_TTL
               /\ sinceJobEnd >= PIPELINE_TTL]_vars

\* The state right after an eviction that followed a request and its task.
C9_Witness ==
    /\ pipeline = "None"
    /\ pc = "select"
    /\ waitPhase = "drain"
    /\ sinceHandled >= PIPELINE_TTL
    /\ sinceJobEnd >= PIPELINE_TTL
    /\ \E j \in Requests : task[j] = "done" /\ cold[j] = "true"

\* C10: the cold flag of a request is recorded in the step that takes its
\* Message and never changes afterwards; it is "true" exactly when the pipeline
\* was None in that step, which is exactly when the step starts a get_pipeline
\* call for it; with "false" no construction starts and the task is spawned at once.
C10_ColdIffAbsentIffConstructs ==
    [][/\ Dequeues => cold'[Head(queue).sentence] # "unset"
       /\ \A r \in Requests :
            cold'[r] # cold[r] =>
                /\ cold[r] = "unset"
                /\ Dequeues
                /\ Head(queue).sentence = r
                /\ cold'[r] = "true" <=> pipeline = "None"
                /\ cold'[r] = "true" <=> (r \in constructing' /\ r \notin constructing)
                /\ cold'[r] = "false" =>
                      /\ constructing' = constructing
                      /\ pipeline' = "Some"
                      /\ task'[r] = "spawned"
       /\ \A r \in Requests :
            (r \in constructing' /\ r \notin constructing) => cold'[r] = "true"]_vars

\* One request was handled cold and another warm.
C10_Witness == \E r, q \in Requests : cold[r] = "true" /\ cold[q] = "false"

\* The Message of request c is buffered in the channel.
Buffered(c) == \E i \in 1..Len(queue) : queue[i].tx = c

\* C11: the channel never buffers more than 16 Messages; a caller whose send
\* finds it full is suspended with the buffer untouched, and its Message is
\* appended only once the buffer is below 16 again; every Message sent is in
\* exactly one place (with its suspended caller, buffered once, or taken by
\* the actor); and the buffer changes only by an append at the tail or by the
\* actor taking its head, which is the Message the actor then handles.
C11_BoundedFifoInbound ==
    /\ [](Len(queue) <= 16)
    /\ [](\A c \in Ids :
            /\ c <= nextId =>
                  /\ (c \in sending) => (~Buffered(c) /\ cold[c] = "unset")
                  /\ Buffered(c) => cold[c] = "unset"
                  /\ (c \in sending) \/ Buffered(c) \/ cold[c] # "unset"
                  /\ Cardinality({i \in 1..Len(queue) : queue[i].tx = c}) <= 1
            /\ c > nextId => (c \notin sending /\ ~Buffered(c) /\ cold[c] = "unset"))
    /\ [][/\ \/ queue' = queue
             \/ \E c \in Ids : queue' = Append(queue, [sentence |-> c, tx |-> c])
             \/ /\ queue # <<>>
                /\ queue' = Tail(queue)
                /\ cold[Head(queue).sentence] = "unset"
                /\ cold'[Head(queue).sentence] # "unset"
                /\ \/ msg' = Head(queue)
                   \/ /\ task'[Head(queue).sentence] = "spawned"
                      /\ cb'[Head(queue).sentence] = Head(queue).tx
          /\ (nextId' # nextId /\ Len(queue) = 16)
                => (nextId' \in sending' /\ queue' = queue)
          /\ \A c \in Ids :
                /\ (c \in sending' /\ c \notin sending)
                      => (Len(queue) = 16 /\ queue' = queue)
                /\ (c \in sending /\ c \notin sending')
                      => /\ Len(queue) < 16
                         /\ queue' = Append(queue, [sentence |-> c, tx |-> c])]_vars

\* The channel is full, a caller is suspended in send, and the actor has
\* already taken a Message.
C11_Witness ==
    /\ Len(queue) = 16
    /\ sending # {}
    /\ \E c \in Ids : cold[c] # "unset"

\* A task that has been spawned and has not ended.
InFlight(j) == task[j] \in {"spawned", "queued", "running"}

\* C12: whenever the pipeline is present and a Message is buffered, the actor
\* can take it, whatever the state of the tasks in handles; and the step that
\* takes it spawns and pushes its task at once, returns to select and leaves
\* every other task as it is: no earlier task has to end first.
C12_ActorNeverWaitsForJobs ==
    /\ []((pipeline = "Some" /\ queue # <<>>) => ENABLED SelectRecv)
    /\ [][(Dequeues /\ pipeline = "Some") =>
            /\ task'[Head(queue).sentence] = "spawned"
            /\ handles' = handles \cup {Head(queue).sentence}
            /\ pc' = "select"
            /\ \A k \in Requests \ {Head(queue).sentence} :
                  task'[k] = task[k]]_vars

\* Two tasks are in flight at the same time, the second spawned warm.
C12_Witness ==
    \E j, k \in Requests :
        /\ j < k
        /\ InFlight(j) /\ InFlight(k)
        /\ {j, k} \subseteq handles
        /\ cold[k] = "false"

\* C13 (as stated): the actor is only ever suspended in select, and a buffered
\* Message can be taken in every state, also during a construction.
C13_SuspendsOnlyInSelect ==
    /\ pc = "select"
    /\ queue # <<>> => ENABLED SelectRecv

\* C13 (amended): the actor is suspended in select or, exactly while a
\* get_pipeline call is in flight, on that call; in select a buffered Message
\* can always be taken; during the construction none can be taken and no
\* eviction can happen, the buffer only grows at its tail.
C13_SuspendsInSelectOrConstruction ==
    /\ [](pc = "get_pipeline" <=> constructing # {})
    /\ []((pc = "select" /\ queue # <<>>) => ENABLED SelectRecv)
    /\ [](pc = "get_pipeline" => (~ENABLED SelectRecv /\ ~ENABLED Evict))
    /\ [][pc = "get_pipeline" =>
            /\ Len(queue') >= Len(queue)
            /\ SubSeq(queue', 1, Len(queue)) = queue]_vars

\* Every other request is buffered behind a construction and cannot be taken.
C13_Witness ==
    /\ pc = "get_pipeline"
    /\ Len(queue) = MaxReq - 1
    /\ ~ENABLED SelectRecv

\* C14: the step in which a caller drops its receiver changes nothing else;
\* a task whose receiver is gone ends like any other (its send is made, fails
\* and is ignored; pipeline, handles and every other task and channel are
\* untouched); a running task can always return and an ended one can always
\* be taken out of handles by a draining wait, whether or not its receiver is
\* gone; and under fair scheduling every in-flight task of an abandoned
\* request ends and leaves handles.
C14_AbandonedRequestRunsToCompletion ==
    /\ [][rxDropped' # rxDropped =>
            UNCHANGED <<nextId, queue, chan, pipeline, pc, msg, constructing, cold,
                        handles, task, cb, poolQueue, waitPhase, elapsed>>]_vars
    /\ [][\A j \in Requests :
            (task[j] = "running" /\ cb[j] \in rxDropped /\ task'[j] = "done") =>
                /\ Len(chan'[cb[j]]) = Len(chan[cb[j]]) + 1
                /\ Last(chan'[cb[j]]).by = j
                /\ Last(chan'[cb[j]]).delivered = FALSE
                /\ pipeline' = pipeline
                /\ handles' = handles
                /\ pc' = pc
                /\ \A k \in Requests \ {j} :
                      task'[k] = task[k] /\ chan'[k] = chan[k]]_vars
    /\ [](\A j \in Requests :
            /\ task[j] = "running" => (ENABLED PredictOk(j) /\ ENABLED PredictErr(j))
            /\ (j \in handles /\ Finished(j) /\ pc = "select" /\ waitPhase = "drain")
                  => ENABLED WaitNext(j))
    /\ \A j \in Requests :
          (j \in rxDropped /\ InFlight(j)) ~> (Finished(j) /\ j \notin handles)

\* An abandoned request's task has ended, its send failed and its handle is
\* gone, while another request got its entities on the same pipeline.
C14_Witness ==
    \E j, k \in Requests :
        /\ j # k
        /\ j \in rxDropped
        /\ task[j] = "done"
        /\ j \notin handles
        /\ Len(chan[j]) = 1 /\ ~chan[j][1].delivered
        /\ Len(chan[k]) = 1 /\ chan[k][1].delivered /\ chan[k][1].val = "Ok"
        /\ pipeline = "Some"

\* C15: the actor loop never stops (in select with a Message buffered it can
\* take it, and a construction in flight can return), and under fair
\* scheduling every Message buffered in the channel is eventually taken and
\* its request eventually has an outcome on its completion channel.
C15_EveryRequestGetsOutcome ==
    /\ []((pc = "select" /\ queue # <<>>) => ENABLED SelectRecv)
    /\ [](pc = "get_pipeline" => ENABLED GetPipelineOk)
    /\ \A r \in Requests : Buffered(r) ~> ~Buffered(r)
    /\ \A r \in Requests : Buffered(r) ~> (chan[r] # <<>>)

\* ------------------------------------------------------------ the extractor
\* Pipeline::predict of onnx-bert/src/lib.rs, from the logits on: one step per
\* row of the logits (lines 116-146), then the filter and map (lines 148-165).

\* Longest token sequence and longest sentence (in bytes) that are drawn.
MaxTokens == 3
SentLen == 3

\* config.id2label: label id i is Id2Label[i + 1]; id 0 is "no entity".
Id2Label == <<"O", "PER", "ORG">>
Labels == 0..(Len(Id2Label) - 1)

\* The sentence, one distinct value per byte (all on char boundaries).
Sentence == [i \in 1..SentLen |-> i]

\* f32 as far as predict needs it.  A finite value is an integer; exp of a
\* logit above ExpMax is +inf (e^89 > f32::MAX); Inf is above every finite
\* value drawn here.  exp itself is replaced by the strictly increasing 2^z:
\* only the order and the ratios of the exponentials are used.
ExpMax == 88
Inf == 2^30
F32_MIN == 0 - Inf
Exp(z) == IF z > ExpMax THEN Inf ELSE 2^z
Add(a, b) == IF a = Inf \/ b = Inf THEN Inf ELSE a + b

\* A quotient max / sum is kept as <<max, sum>>; inf / inf is NaN, kept as
\* <<0, 0>>.
NaN == <<0, 0>>
IsNaN(x) == x[2] = 0
Div(a, b) == IF b = Inf THEN (IF a = Inf THEN NaN ELSE <<0, 1>>) ELSE <<a, b>>
Less(x, y) == x[1] * y[2] < y[1] * x[2]
SameScore(x, y) ==
    \/ IsNaN(x) /\ IsNaN(y)
    \/ ~IsNaN(x) /\ ~IsNaN(y) /\ x[1] * y[2] = y[1] * x[2]

\* f32::max: a NaN operand is ignored.
F32Max(x, y) ==
    IF IsNaN(x) THEN y
    ELSE IF IsNaN(y) THEN x
    ELSE IF Less(x, y) THEN y ELSE x

MaxOf(a, b) == IF a > b THEN a ELSE b

\* The rows of logits that are drawn: a clear winner for each label, two
\* ties, a second confidence for label 1 and a row whose exp overflows.
ScoreRows ==
    { <<1, 0, 0>>, <<0, 1, 0>>, <<0, 0, 1>>,
      <<1, 1, 0>>, <<0, 1, 1>>, <<0, ExpMax + 1, 0>> }

\* A token is its row of logits and its offsets into the sentence, as the
\* tokenizer gives them: start <= end <= sentence length; a special token
\* has (0, 0).
Tokens ==
    { t \in [scores : ScoreRows, start : 0..SentLen, end : 0..SentLen] :
          t.start <= t.end }

\* The end of the text the tokens so far cover.
RECURSIVE TextEnd(_)
TextEnd(toks) ==
    IF toks = <<>> THEN 0 ELSE MaxOf(Last(toks).end, TextEnd(SubSeq(toks, 1, Len(toks) - 1)))

\* Lines 81-83 and 106-114, for one token: encode(.., true) gives the next
\* token, either a special token with the offsets (0, 0) or a piece of the
\* text not before the pieces so far, and the model gives its row.
Encode ==
    /\ predictPc = "encode"
    /\ Len(tokens) < MaxTokens
    /\ \E t \in Tokens :
          /\ \/ t.start = 0 /\ t.end = 0
             \/ t.start < t.end /\ t.start >= TextEnd(tokens)
          /\ tokens' = Append(tokens, t)
    /\ UNCHANGED <<rowIdx, entities, output, predictPc, returned>>
    /\ UNCHANGED actVars

\* Lines 112-114: the logits of all tokens are there; the row loop begins.
RunModel ==
    /\ predictPc = "encode"
    /\ predictPc' = "scan"
    /\ UNCHANGED <<tokens, rowIdx, entities, output, returned>>
    /\ UNCHANGED actVars

\* A comparison that lets a later label win a tie.
Exceeds_OrEqual(z, max) == z >= max

\* Line 123: `if z > max`.
Exceeds(z, max) == z > max

\* Lines 117-128: the inner loop over one row, from index i on.
RECURSIVE ScanScores(_, _, _)
ScanScores(scores, i, acc) ==
    IF i > Len(scores) THEN acc
    ELSE LET z == Exp(scores[i])
             sum == Add(acc.sum, z)
         IN  ScanScores(scores, i + 1,
                 IF Exceeds(z, acc.max)
                 THEN [sum |-> sum, max |-> z, label |-> i - 1]
                 ELSE [acc EXCEPT !.sum = sum])

\* Lines 117-130: label and score of one row.
Softmax(scores) ==
    LET a == ScanScores(scores, 1, [sum |-> 0, max |-> F32_MIN, label |-> 0])
    IN  [label |-> a.label, score |-> Div(a.max, a.sum)]

\* A merge that keeps the score of the first token.
Merge_KeepScore(prev, score, start, end) ==
    [prev EXCEPT !.start = Min(@, start), !.end = MaxOf(@, end)]

\* A merge that takes the end of the latest token.
Merge_LastEnd(prev, score, start, end) ==
    [prev EXCEPT !.score = F32Max(@, score),
                 !.start = Min(@, start),
                 !.end = end]

\* Lines 135-137: the row has the label of the last raw entity.
Merge(prev, score, start, end) ==
    [prev EXCEPT !.score = F32Max(@, score),
                 !.start = Min(@, start),
                 !.end = MaxOf(@, end)]

\* Lines 116-146: one row of the logits.
ScanRow ==
    /\ predictPc = "scan"
    /\ rowIdx < Len(tokens)
    /\ LET t == tokens[rowIdx + 1]
           sm == Softmax(t.scores)
       IN  entities' =
               IF entities # <<>> /\ Last(entities).label = sm.label
               THEN [entities EXCEPT ![Len(entities)] =
                        Merge(@, sm.score, t.start, t.end)]
               ELSE Append(entities, [label |-> sm.label, score |-> sm.score,
                                      start |-> t.start, end |-> t.end])
    /\ rowIdx' = rowIdx + 1
    /\ UNCHANGED <<tokens, output, predictPc, returned>>
    /\ UNCHANGED actVars

\* A filter that lets the reserved label through.
NotReserved_Any(e) == TRUE

\* Line 150, first half.
NotReserved(e) == e.label # 0

\* A filter that lets empty spans through.
NonEmpty_Any(e) == TRUE

\* Line 150, second half.
NonEmpty(e) == e.end > e.start

\* A map whose word leaves out the last byte of the span.
ToEntity_ShortWord(e) ==
    [label |-> Id2Label[e.label + 1],
     score |-> e.score,
     word  |-> SubSeq(Sentence, e.start + 1, e.end - 1),
     start |-> e.start,
     end   |-> e.end]

\* Lines 151-163.
ToEntity(e) ==
    [label |-> Id2Label[e.label + 1],
     score |-> e.score,
     word  |-> SubSeq(Sentence, e.start + 1, e.end),
     start |-> e.start,
     end   |-> e.end]

\* Lines 148-164: filter, then map, in order.
RECURSIVE FilterMap(_)
FilterMap(es) ==
    IF es = <<>> THEN <<>>
    ELSE (IF NotReserved(Head(es)) /\ NonEmpty(Head(es))
          THEN <<ToEntity(Head(es))>> ELSE <<>>) \o FilterMap(Tail(es))

\* Lines 148-167: after the last row.
Collect ==
    /\ predictPc = "scan"
    /\ rowIdx = Len(tokens)
    /\ output' = FilterMap(entities)
    /\ predictPc' = "done"
    /\ UNCHANGED <<tokens, rowIdx, entities, returned>>
    /\ UNCHANGED actVars

\* predict of src/lib.rs (lines 100-132): one Entity per token whose label is
\* not 0, nothing merged; the word is the token's own text, here its index.
RECURSIVE PredictPerToken(_, _)
PredictPerToken(toks, i) ==
    IF i > Len(toks) THEN <<>>
    ELSE LET sm == Softmax(toks[i].scores)
         IN  (IF sm.label = 0 THEN <<>>
              ELSE <<[label |-> Id2Label[sm.label + 1], score |-> sm.score,
                      word |-> i, start |-> toks[i].start, end |-> toks[i].end]>>)
             \o PredictPerToken(toks, i + 1)

\* predict is entered.
ExtractInit ==
    /\ ActInit
    /\ tokens = <<>>
    /\ rowIdx = 0
    /\ entities = <<>>
    /\ output = <<>>
    /\ predictPc = "encode"
    /\ returned = <<>>

ExtractNext == Encode \/ RunModel \/ ScanRow \/ Collect

ExtractSpec == ExtractInit /\ [][ExtractNext]_vars

\* Calls of predict with one sentence on one Pipeline.
MaxCalls == 2

\* A Pipeline that keeps the raw entities of its last call.
PredictAgain_KeepEntities ==
    /\ predictPc = "done"
    /\ Len(returned) < MaxCalls - 1
    /\ returned' = Append(returned, output)
    /\ rowIdx' = 0
    /\ output' = <<>>
    /\ predictPc' = "scan"
    /\ UNCHANGED <<tokens, entities>>
    /\ UNCHANGED actVars

\* predict(&self, ..) is called again with the same sentence: the tokenizer
\* and the model give the same encoding and logits, and line 112 starts from
\* a new, empty `entities`.
PredictAgain ==
    /\ predictPc = "done"
    /\ Len(returned) < MaxCalls - 1
    /\ returned' = Append(returned, output)
    /\ rowIdx' = 0
    /\ entities' = <<>>
    /\ output' = <<>>
    /\ predictPc' = "scan"
    /\ UNCHANGED tokens
    /\ UNCHANGED actVars

RepeatNext == ExtractNext \/ PredictAgain

RepeatSpec == ExtractInit /\ [][RepeatNext]_vars

\* The arg-max label of row i of the logits: the lowest label whose
\* exponential is the largest of the row.
LabelOf(i) ==
    CHOOSE l \in Labels :
        /\ \A k \in Labels : Exp(tokens[i].scores[k + 1]) <= Exp(tokens[i].scores[l + 1])
        /\ \A k \in 0..(l - 1) : Exp(tokens[i].scores[k + 1]) < Exp(tokens[i].scores[l + 1])

\* The softmax confidence of row i: exp of its largest logit over the sum of
\* the exponentials of the row, in f32.
RECURSIVE SumExp(_, _)
SumExp(row, k) == IF k > Len(row) THEN 0 ELSE Add(Exp(row[k]), SumExp(row, k + 1))
ConfOf(i) == Div(Exp(tokens[i].scores[LabelOf(i) + 1]), SumExp(tokens[i].scores, 1))

\* The maximal runs of consecutive tokens with one arg-max label, in order,
\* each as <<first, last>>.
RunEnd(a) ==
    CHOOSE b \in a..Len(tokens) :
        /\ \A i \in a..b : LabelOf(i) = LabelOf(a)
        /\ b = Len(tokens) \/ LabelOf(b + 1) # LabelOf(a)
RECURSIVE RunsFrom(_)
RunsFrom(a) ==
    IF a > Len(tokens) THEN <<>>
    ELSE <<<<a, RunEnd(a)>>>> \o RunsFrom(RunEnd(a) + 1)
IsEntityRun(r) == LabelOf(r[1]) # 0
EntityRuns == SelectSeq(RunsFrom(1), IsEntityRun)

MinStart(r) ==
    CHOOSE s \in {tokens[i].start : i \in r[1]..r[2]} :
        \A i \in r[1]..r[2] : s <= tokens[i].start
MaxEnd(r) ==
    CHOOSE e \in {tokens[i].end : i \in r[1]..r[2]} :
        \A i \in r[1]..r[2] : e >= tokens[i].end
IsSpanRun(r) == MaxEnd(r) > MinStart(r)

\* x is the largest confidence of the run, NaN confidences left out; NaN if
\* every confidence of the run is NaN.
IsRunScore(x, r) ==
    IF \A i \in r[1]..r[2] : IsNaN(ConfOf(i))
    THEN IsNaN(x)
    ELSE /\ ~IsNaN(x)
         /\ \E i \in r[1]..r[2] : SameScore(x, ConfOf(i))
         /\ \A i \in r[1]..r[2] : IsNaN(ConfOf(i)) \/ ~Less(x, ConfOf(i))

\* The tokens of the run have non-empty offsets in text order.
OrderedRun(r) ==
    /\ \A i \in r[1]..r[2] : tokens[i].start < tokens[i].end
    /\ \A i \in r[1]..(r[2] - 1) : tokens[i].end <= tokens[i + 1].start

C17_AllReservedGivesEmpty ==
    (predictPc = "done" /\ \A i \in 1..Len(tokens) : LabelOf(i) = 0) =>
        /\ output = <<>>
        /\ PredictPerToken(tokens, 1) = <<>>

\* predict has returned nothing for two tokens with non-empty offsets whose
\* rows both have the arg-max label 0, one of them by a tie with label 1.
C17_Witness ==
    /\ predictPc = "done"
    /\ Len(tokens) >= 2
    /\ \A i \in 1..Len(tokens) : LabelOf(i) = 0 /\ tokens[i].start < tokens[i].end
    /\ \E i \in 1..Len(tokens) : tokens[i].scores[1] = tokens[i].scores[2]
    /\ Len(entities) = 1 /\ entities[1].label = 0
    /\ output = <<>>

\* C18: every Entity predict returns has start < end, lies within the
\* sentence, and has a label of the mapping other than that of id 0.
C18_EntityWellFormed ==
    predictPc = "done" =>
        \A k \in 1..Len(output) :
            /\ output[k].start < output[k].end
            /\ 0 <= output[k].start
            /\ output[k].end <= SentLen
            /\ output[k].label # Id2Label[1]
            /\ \E l \in Labels \ {0} : output[k].label = Id2Label[l + 1]

\* predict has returned an Entity and has dropped a raw entity of another
\* non-reserved label whose span was empty.
C18_Witness ==
    /\ predictPc = "done"
    /\ Len(output) = 1
    /\ Len(entities) = 2
    /\ \E i \in 1..2 : entities[i].label # 0 /\ entities[i].end <= entities[i].start
    /\ \A i \in 1..2 : entities[i].label # 0

\* impl Display for Error (main.rs:90-96, "{0}"): the text of the wrapped
\* error, a JoinError's for Join and an onnx_bert::Error's for Bert.
Display(v) == IF v = "Join" THEN "JoinError" ELSE "onnx_bert::Error"

\* impl From<Error> for Status: Status::internal(value.to_string()).
ToStatus(v) == [code |-> "Internal", message |-> Display(v)]

\* The caller of request c has received an Err on its oneshot channel.
Failed(c) == chan[c] # <<>> /\ chan[c][1].delivered /\ chan[c][1].val # "Ok"

\* What `ner` returns for it: `rx.await.unwrap()?` converts the Error.
Response(c) == ToStatus(chan[c][1].val)

\* C19: any two requests that failed get the same response: the same status
\* code and the same message, whatever the kinds of their errors.
C19_FailuresIndistinguishable ==
    \A c, k \in Requests :
        (Failed(c) /\ Failed(k)) =>
            /\ Response(c).code = "Internal"
            /\ Response(c) = Response(k)

\* The strong count of the Arc<Pipeline>: the actor's own handle and one
\* clone per task from its spawn until its predict has returned.
StrongCount ==
    (IF pipeline = "Some" THEN 1 ELSE 0) + Cardinality({j \in Requests : InFlight(j)})

\* C20: a task that holds a clone of the Arc is in handles: it is put there
\* by the step that spawns it and taken out only after it has ended (having
\* sent its result unless it panicked); handles is non-empty only while the
\* pipeline is present; and the eviction step takes the pipeline when the
\* actor's handle is the only one, leaving none.
C20_ActorHoldsLastReference ==
    /\ [](\A j \in Requests : InFlight(j) => j \in handles)
    /\ [][\A j \in Requests :
            /\ (~Dispatched(j) /\ task'[j] # "none") => j \in handles'
            /\ (j \in handles /\ j \notin handles') =>
                  /\ Finished(j)
                  /\ task[j] = "done" => Len(chan[cb[j]]) = 1]_vars
    /\ [](handles # {} => pipeline = "Some")
    /\ [][(pipeline = "Some" /\ pipeline' = "None") =>
            (StrongCount = 1 /\ StrongCount' = 0)]_vars

\* The pipeline has been dropped after every request was dispatched and its
\* task has ended, one of them on a pipeline that was already there.
C20_Witness ==
    /\ pipeline = "None"
    /\ StrongCount = 0
    /\ \A j \in Requests : task[j] = "done" /\ j \notin handles
    /\ \E j \in Requests : cold[j] = "false"

\* The maximal runs of one arg-max label among the first n tokens, from a on.
PrefixRunEnd(a, n) ==
    CHOOSE b \in a..n :
        /\ \A i \in a..b : LabelOf(i) = LabelOf(a)
        /\ b = n \/ LabelOf(b + 1) # LabelOf(a)
RECURSIVE PrefixRuns(_, _)
PrefixRuns(a, n) ==
    IF a > n THEN <<>>
    ELSE <<<<a, PrefixRunEnd(a, n)>>>> \o PrefixRuns(PrefixRunEnd(a, n) + 1, n)
IsKeptRun(r) == LabelOf(r[1]) # 0 /\ MaxEnd(r) > MinStart(r)

\* Token i lies within the span of Entity e.
Covers(e, i) == e.start <= tokens[i].start /\ tokens[i].end <= e.end

\* C21: after every row, the raw spans are the maximal runs of one arg-max
\* label among the rows scanned, in order, each with its label, the smallest
\* start, the largest end and the largest confidence of its tokens; what
\* predict returns is these spans for all rows, without those of label 0 or
\* with end <= start, in the same order.  So two neighbouring tokens of one
\* non-reserved label lie in one Entity, and two tokens of one label with a
\* token of another label (0 included) between them lie in two Entities.
C21_GreedyLabelContiguityMerge ==
    /\ predictPc \in {"scan", "done"} =>
          LET runs == PrefixRuns(1, rowIdx)
          IN  /\ Len(entities) = Len(runs)
              /\ \A k \in 1..Len(runs) :
                    /\ entities[k].label = LabelOf(runs[k][1])
                    /\ entities[k].start = MinStart(runs[k])
                    /\ entities[k].end = MaxEnd(runs[k])
                    /\ IsRunScore(entities[k].score, runs[k])
    /\ predictPc = "done" =>
          LET kept == SelectSeq(PrefixRuns(1, Len(tokens)), IsKeptRun)
          IN  /\ rowIdx = Len(tokens)
              /\ Len(output) = Len(kept)
              /\ \A k \in 1..Len(kept) :
                    /\ output[k].label = Id2Label[LabelOf(kept[k][1]) + 1]
                    /\ output[k].start = MinStart(kept[k])
                    /\ output[k].end = MaxEnd(kept[k])
                    /\ IsRunScore(output[k].score, kept[k])
              /\ \A i \in 1..(Len(tokens) - 1) :
                    (/\ LabelOf(i) # 0 /\ LabelOf(i + 1) = LabelOf(i)
                     /\ tokens[i].start < tokens[i].end
                     /\ tokens[i + 1].start < tokens[i + 1].end) =>
                        \E k \in 1..Len(output) :
                            Covers(output[k], i) /\ Covers(output[k], i + 1)
              /\ \A i, j \in 1..Len(tokens) :
                    (/\ i < j
                     /\ LabelOf(i) # 0 /\ LabelOf(j) = LabelOf(i)
                     /\ tokens[i].start < tokens[i].end
                     /\ tokens[j].start < tokens[j].end
                     /\ \E m \in (i + 1)..(j - 1) : LabelOf(m) # LabelOf(i)) =>
                        \E k, l \in 1..Len(output) :
                            /\ k < l
                            /\ Covers(output[k], i)
                            /\ Covers(output[l], j)

\* predict has returned two Entities of one label for three tokens in text
\* order of which the first and the last have that label and the middle one
\* has label 0, and the last two tokens touch.
C21_Witness ==
    /\ predictPc = "done"
    /\ Len(tokens) = 3
    /\ LabelOf(1) = 1 /\ LabelOf(2) = 0 /\ LabelOf(3) = 1
    /\ \A i \in 1..3 : tokens[i].start < tokens[i].end
    /\ tokens[2].end = tokens[3].start
    /\ Len(entities) = 3
    /\ Len(output) = 2
    /\ output[1].label = output[2].label

\* C22: requests are numbered in the order the actor takes them; a task that
\* is spawned but has not yet put its closure on the pool has no later task
\* ahead of it (already queued, running or ended), the closures waiting on
\* the pool are in the order of their requests, and a Message buffered while
\* the pipeline is present can be taken by the actor.
C22_PoolFifoByAcceptance ==
    /\ \A i, j \in Requests :
          (i < j /\ task[i] = "spawned") => task[j] \in {"none", "spawned"}
    /\ \A p, q \in 1..Len(poolQueue) : p < q => poolQueue[p] < poolQueue[q]
    /\ (pipeline = "Some" /\ queue # <<>>) => ENABLED SelectRecv

\* C23: every Entity predict returns has as its word the bytes of the
\* sentence from start up to end, none more and none less, and as its label
\* the string of the mapping for the arg-max label of its tokens; when two
\* tokens of one label with text between them are merged, the bytes between
\* them are in the word.
C23_WordIsSentenceSlice ==
    predictPc = "done" =>
        LET kept == SelectSeq(PrefixRuns(1, Len(tokens)), IsKeptRun)
        IN  /\ Len(output) = Len(kept)
            /\ \A k \in 1..Len(output) :
                  /\ Len(output[k].word) = output[k].end - output[k].start
                  /\ \A i \in 1..Len(output[k].word) :
                        output[k].word[i] = Sentence[output[k].start + i]
                  /\ k <= Len(kept) =>
                        /\ output[k].label = Id2Label[LabelOf(kept[k][1]) + 1]
                        /\ \A i \in kept[k][1]..(kept[k][2] - 1) :
                              \A b \in (tokens[i].end + 1)..tokens[i + 1].start :
                                  (tokens[i].start < tokens[i].end) =>
                                      output[k].word[b - output[k].start] = Sentence[b]

\* predict has returned one Entity for two tokens of one label with one byte
\* between them: its word is the three bytes of both tokens and the gap.
C23_Witness ==
    /\ predictPc = "done"
    /\ Len(tokens) = 2
    /\ LabelOf(1) = 1 /\ LabelOf(2) = 1
    /\ tokens[1].start = 0 /\ tokens[1].end = 1
    /\ tokens[2].start = 2 /\ tokens[2].end = 3
    /\ Len(output) = 1
    /\ output[1].word = <<Sentence[1], Sentence[2], Sentence[3]>>
    /\ output[1].label = "PER"

LowestHighest(row) ==
    CHOOSE l \in Labels :
        /\ \A k \in Labels : row[k + 1] <= row[l + 1]
        /\ \A k \in 0..(l - 1) : row[k + 1] < row[l + 1]

\* Labels i < j share the highest score of the row.
TiedHighest(row, i, j) ==
    /\ i < j
    /\ row[i + 1] = row[j + 1]
    /\ \A k \in Labels : row[k + 1] <= row[i + 1]

\* C25: the raw entity that the row loop has just written has the lowest of
\* the labels with the highest score of the row just scanned: never j when a
\* label i < j has the same highest score, and 0 when label 0 shares the
\* highest score, so that a sentence of such rows only gives no Entity; the
\* per-token predict of src/lib.rs labels every row in the same way.
C25_TiesGoToLowestLabel ==
    /\ (predictPc \in {"scan", "done"} /\ rowIdx >= 1) =>
          LET row == tokens[rowIdx].scores
          IN  /\ entities # <<>>
              /\ Last(entities).label = LowestHighest(row)
              /\ \A i, j \in Labels :
                    TiedHighest(row, i, j) => Last(entities).label # j
              /\ (\E j \in Labels : TiedHighest(row, 0, j)) => Last(entities).label = 0
    /\ (predictPc = "done"
           /\ \A n \in 1..Len(tokens) : \E j \in Labels : TiedHighest(tokens[n].scores, 0, j))
          => (output = <<>> /\ PredictPerToken(tokens, 1) = <<>>)
    /\ \A n \in 1..Len(tokens) :
          LET one == PredictPerToken(<<tokens[n]>>, 1)
              l == LowestHighest(tokens[n].scores)
          IN  IF l = 0 THEN one = <<>>
              ELSE Len(one) = 1 /\ one[1].label = Id2Label[l + 1]

\* predict has returned one Entity for two tokens with text: the first row
\* ties labels 0 and 1 and gave nothing, the second ties labels 1 and 2 and
\* gave an Entity of label 1.
C25_Witness ==
    /\ predictPc = "done"
    /\ Len(tokens) = 2
    /\ TiedHighest(tokens[1].scores, 0, 1)
    /\ TiedHighest(tokens[2].scores, 1, 2)
    /\ \A n \in 1..2 : tokens[n].start < tokens[n].end
    /\ Len(entities) = 2
    /\ Len(output) = 1
    /\ output[1].label = Id2Label[2]
    /\ output[1].start = tokens[2].start

====
